---- MODULE Spec2Model ----
(***************************************************************************)
(* Function objects of the boa interpreter                                 *)
(* (boa/src/builtins/function_object.rs): creation, the [[Call]] and       *)
(* [[Construct]] protocol, the own-property table, the internal slots and  *)
(* [[SetPrototypeOf]].                                                     *)
(***************************************************************************)
EXTENDS Integers, Sequences, FiniteSets, TLC

VARIABLES
    funcs,        \* the Function objects created so far: id -> Function
    environment,  \* interpreter.realm.environment: the stack of environments
    frames,       \* the invocations of call/construct in progress, innermost last
    status,       \* "running", "panic" (a Rust panic unwinds) or "hang"
    ret,          \* the last operation that completed, with its arguments and result
    harness       \* the test runner: the last run of a test and what it did

vars == <<funcs, environment, frames, status, ret, harness>>

-----------------------------------------------------------------------------
(* Bounds of the model *)

MaxParams == 2     \* longest formal parameter list
MaxArgs == 2       \* longest argument list
MaxDepth == 2      \* deepest nesting of invocations
MaxFuncs == 3      \* Function objects in the prototype specification
PropFuncs == 1     \* Function objects in the property-table specification

-----------------------------------------------------------------------------
(* Values (builtins::value::ValueData) *)

Null == [type |-> "null"]
Undefined == [type |-> "undefined"]
Bool(b) == [type |-> "boolean", b |-> b]
Num(n) == [type |-> "number", num |-> n]
Str(s) == [type |-> "string", str |-> s]
Obj(id) == [type |-> "object", id |-> id]

is_null(v) == v.type = "null"
is_object(v) == v.type = "object"

\* Option<T>
None == [some |-> FALSE]
Some(x) == [some |-> TRUE, v |-> x]

PROTOTYPE == "prototype"

Digits == <<"0", "1", "2", "3", "4", "5", "6", "7", "8", "9">>

\* usize::to_string: the decimal representation
RECURSIVE usize_to_string(_)
usize_to_string(n) ==
    IF n < 10 THEN Digits[n + 1]
    ELSE usize_to_string(n \div 10) \o Digits[(n % 10) + 1]

\* Value::to_string of a property key
to_string(v) ==
    CASE v.type = "string" -> v.str
      [] v.type = "number" -> usize_to_string(v.num)
      [] v.type = "boolean" -> IF v.b THEN "true" ELSE "false"
      [] OTHER -> v.type

\* HashMap
EmptyMap == [k \in {} |-> Null]
MapInsert(m, k, v) == [x \in DOMAIN m \cup {k} |-> IF x = k THEN v ELSE m[x]]
MapRemove(m, k) == [x \in DOMAIN m \ {k} |-> m[x]]

-----------------------------------------------------------------------------
(* Property descriptors (builtins::property::Property) *)

PropertyDefault ==
    [configurable |-> None, enumerable |-> None, writable |-> None,
     value |-> None, get |-> None, set |-> None]

is_data_descriptor(p) == p.value.some \/ p.writable.some
is_accessor_descriptor(p) == p.get.some \/ p.set.some

-----------------------------------------------------------------------------
(* Formal parameters (syntax::ast::node::FormalParameter) *)

ParamNames == <<"a", "b", "c", "d">>

FormalParameter(i, rest) == [name |-> ParamNames[i], is_rest_param |-> rest]

\* every parameter list of at most MaxParams parameters, well-formed or not
ParamLists ==
    UNION {{[i \in 1..n |-> FormalParameter(i, r[i])] : r \in [1..n -> BOOLEAN]}
           : n \in 0..MaxParams}

\* the parameters before the first rest parameter
RECURSIVE NonRestCount(_)
NonRestCount(ps) ==
    IF ps = <<>> \/ Head(ps).is_rest_param THEN 0
    ELSE 1 + NonRestCount(Tail(ps))

WellFormed(ps) ==
    \A i \in 1..Len(ps) : ps[i].is_rest_param => i = Len(ps)

-----------------------------------------------------------------------------
(* Function objects: internal slots and the own-property table *)

\* get_internal_slot with the bug of reading a slot that holds Undefined as
\* if it were unset
get_internal_slot_undefined_as_null(f, name) ==
    IF name \in DOMAIN f.internal_slots /\ f.internal_slots[name] # Undefined
    THEN f.internal_slots[name]
    ELSE Null

\* ObjectInternalMethods::get_internal_slot
get_internal_slot(f, name) ==
    IF name \in DOMAIN f.internal_slots THEN f.internal_slots[name] ELSE Null

\* ObjectInternalMethods::set_internal_slot
set_internal_slot(f, name, val) ==
    [f EXCEPT !.internal_slots = MapInsert(@, name, val)]

\* insert_property with the bug of keeping the entry a key already has
insert_property_keeps_existing(f, name, p) ==
    IF name \in DOMAIN f.properties THEN f
    ELSE [f EXCEPT !.properties = MapInsert(@, name, p)]

\* ObjectInternalMethods::insert_property
insert_property(f, name, p) ==
    [f EXCEPT !.properties = MapInsert(@, name, p)]

\* ObjectInternalMethods::remove_property
remove_property(f, name) ==
    [f EXCEPT !.properties = MapRemove(@, name)]

\* ObjectInternalMethods::define_own_property on a new, extensible object
\* that has no such property yet: the property is installed
define_own_property(f, name, p) == insert_property(f, name, p)

\* get_own_property with the bug of answering an absent key with a data
\* descriptor holding Undefined
get_own_property_undefined_when_absent(f, prop) ==
    LET key == to_string(prop) IN
    IF key \notin DOMAIN f.properties
    THEN [PropertyDefault EXCEPT !.value = Some(Undefined)]
    ELSE LET v == f.properties[key]
             d == IF is_data_descriptor(v)
                  THEN [PropertyDefault EXCEPT !.value = v.value,
                                               !.writable = v.writable]
                  ELSE [PropertyDefault EXCEPT !.get = v.get, !.set = v.set]
         IN [d EXCEPT !.enumerable = v.enumerable,
                      !.configurable = v.configurable]

\* get_own_property with the bug of returning the stored entry as it is
get_own_property_whole_entry(f, prop) ==
    LET key == to_string(prop) IN
    IF key \notin DOMAIN f.properties THEN PropertyDefault
    ELSE f.properties[key]

\* ObjectInternalMethods::get_own_property
get_own_property(f, prop) ==
    LET key == to_string(prop) IN
    IF key \notin DOMAIN f.properties THEN PropertyDefault
    ELSE LET v == f.properties[key]
             d == IF is_data_descriptor(v)
                  THEN [PropertyDefault EXCEPT !.value = v.value,
                                               !.writable = v.writable]
                  ELSE [PropertyDefault EXCEPT !.get = v.get, !.set = v.set]
         IN [d EXCEPT !.enumerable = v.enumerable,
                      !.configurable = v.configurable]

\* the length property both constructors build
length_property(parameter_list) ==
    [PropertyDefault EXCEPT !.writable = Some(FALSE),
                            !.enumerable = Some(FALSE),
                            !.configurable = Some(TRUE),
                            !.value = Some(Num(Len(parameter_list)))]

\* the slots and the length property both constructors install
InstallSlots(func, proto, parameter_list) ==
    define_own_property(
        set_internal_slot(
            set_internal_slot(
                set_internal_slot(func, "extensible", Bool(TRUE)),
                PROTOTYPE, proto),
            "home_object", Undefined),
        "length", length_property(parameter_list))

\* Function::create_ordinary
create_ordinary(proto, parameter_list, body, scope, this_mode) ==
    InstallSlots([internal_slots |-> EmptyMap, properties |-> EmptyMap,
                  body |-> body, environment |-> Some(scope),
                  params |-> parameter_list, this_mode |-> this_mode],
                 proto, parameter_list)

\* Function::create_builtin
create_builtin(proto, parameter_list, body, this_mode) ==
    InstallSlots([internal_slots |-> EmptyMap, properties |-> EmptyMap,
                  body |-> body, environment |-> None,
                  params |-> parameter_list, this_mode |-> this_mode],
                 proto, parameter_list)

-----------------------------------------------------------------------------
(* [[SetPrototypeOf]] *)

\* Value::get_internal_slot: the slot of the object a value refers to
value_get_internal_slot(fs, p, name) ==
    IF is_object(p) /\ p.id \in DOMAIN fs
    THEN get_internal_slot(fs[p.id], name)
    ELSE Undefined

\* same_value(&to_value(self.clone()), &p, false): p is this very object
same_value(self, p) == is_object(p) /\ p.id = self

\* current == val on two Values
value_eq(x, y) == x = y

\* chain_walk with the bug of looking at the head of the chain only
chain_walk_head_only(fs, self, p, fuel) ==
    IF is_null(p) THEN "null"
    ELSE IF same_value(self, p) THEN "self"
    ELSE "null"

\* chain_walk with the bug of not testing for Null
RECURSIVE chain_walk_misses_null(_, _, _, _)
chain_walk_misses_null(fs, self, p, fuel) ==
    IF same_value(self, p) THEN "self"
    ELSE IF fuel = 0 THEN "diverges"
    ELSE chain_walk_misses_null(fs, self,
             value_get_internal_slot(fs, p, PROTOTYPE), fuel - 1)

\* The while loop of set_prototype_of, from p: "null" when it reaches Null,
\* "self" when it reaches self, "diverges" when it does neither (a walk of
\* more steps than there are values to visit never ends).
RECURSIVE chain_walk(_, _, _, _)
chain_walk(fs, self, p, fuel) ==
    IF is_null(p) THEN "null"
    ELSE IF same_value(self, p) THEN "self"
    ELSE IF fuel = 0 THEN "diverges"
    ELSE chain_walk(fs, self, value_get_internal_slot(fs, p, PROTOTYPE), fuel - 1)

\* set_prototype_of with the bug of storing the prototype although the walk
\* reached self
set_prototype_of_no_cycle_check(fs, self, val) ==
    LET f == fs[self]
        current == get_internal_slot(f, PROTOTYPE)
        extensible == get_internal_slot(f, "extensible")
    IN  IF value_eq(current, val) THEN [returns |-> TRUE, result |-> TRUE, func |-> f]
        ELSE IF is_null(extensible) THEN [returns |-> TRUE, result |-> FALSE, func |-> f]
        ELSE [returns |-> TRUE, result |-> TRUE,
              func |-> set_internal_slot(f, PROTOTYPE, val)]

\* set_prototype_of with the bug of testing extensibility before equality
set_prototype_of_extensible_first(fs, self, val) ==
    LET f == fs[self]
        current == get_internal_slot(f, PROTOTYPE)
        extensible == get_internal_slot(f, "extensible")
        walk == chain_walk(fs, self, val, Cardinality(DOMAIN fs) + 1)
    IN  IF is_null(extensible) THEN [returns |-> TRUE, result |-> FALSE, func |-> f]
        ELSE IF value_eq(current, val) THEN [returns |-> TRUE, result |-> TRUE, func |-> f]
        ELSE IF walk = "self" THEN [returns |-> TRUE, result |-> FALSE, func |-> f]
        ELSE IF walk = "null"
             THEN [returns |-> TRUE, result |-> TRUE,
                   func |-> set_internal_slot(f, PROTOTYPE, val)]
        ELSE [returns |-> FALSE, result |-> FALSE, func |-> f]

\* set_prototype_of with the bug of not reading the extensible slot
set_prototype_of_ignores_extensible(fs, self, val) ==
    LET f == fs[self]
        current == get_internal_slot(f, PROTOTYPE)
        walk == chain_walk(fs, self, val, Cardinality(DOMAIN fs) + 1)
    IN  IF value_eq(current, val) THEN [returns |-> TRUE, result |-> TRUE, func |-> f]
        ELSE IF walk = "self" THEN [returns |-> TRUE, result |-> FALSE, func |-> f]
        ELSE IF walk = "null"
             THEN [returns |-> TRUE, result |-> TRUE,
                   func |-> set_internal_slot(f, PROTOTYPE, val)]
        ELSE [returns |-> FALSE, result |-> FALSE, func |-> f]

\* ObjectInternalMethods::set_prototype_of on fs[self]: whether it returns,
\* what it returns and the Function it leaves
set_prototype_of(fs, self, val) ==
    LET f == fs[self]
        current == get_internal_slot(f, PROTOTYPE)
        extensible == get_internal_slot(f, "extensible")
        walk == chain_walk(fs, self, val, Cardinality(DOMAIN fs) + 1)
    IN  IF value_eq(current, val) THEN [returns |-> TRUE, result |-> TRUE, func |-> f]
        ELSE IF is_null(extensible) THEN [returns |-> TRUE, result |-> FALSE, func |-> f]
        ELSE IF walk = "self" THEN [returns |-> TRUE, result |-> FALSE, func |-> f]
        ELSE IF walk = "null"
             THEN [returns |-> TRUE, result |-> TRUE,
                   func |-> set_internal_slot(f, PROTOTYPE, val)]
        ELSE [returns |-> FALSE, result |-> FALSE, func |-> f]

-----------------------------------------------------------------------------
(* Environments (environment::lexical_environment) *)

\* the global environment, the scope every ordinary function here closes over
GlobalEnv ==
    [this_binding |-> Undefined, new_target |-> Undefined, outer |-> None,
     bindings |-> EmptyMap]

\* new_function_environment(f, new_target, outer): a new, empty environment
new_function_environment(f, new_target, outer) ==
    [this_binding |-> f, new_target |-> new_target, outer |-> outer,
     bindings |-> EmptyMap]

\* create_mutable_binding(name, false) followed by initialize_binding(name, value)
initialize_binding(env, name, value) ==
    [env EXCEPT !.bindings = MapInsert(@, name, value)]

-----------------------------------------------------------------------------
(* [[Call]] and [[Construct]] *)

\* ResultValue
Ok(v) == [ok |-> TRUE, v |-> v]
Err(e) == [ok |-> FALSE, v |-> e]

\* what a native routine or the executor may return
Results == {Ok(Num(42)), Err(Str("TypeError")), Err(Str("RangeError"))}

\* the argument lists: call never looks into an argument, so one list of
\* each length, its elements told apart by their position
ArgLists == {[i \in 1..n |-> Num(i)] : n \in 0..MaxArgs}
ThisValues == {Obj(10)}
NewTargets == {Obj(20)}

NoPanic == "no panic"
UnwrapNone == "called Option::unwrap() on a None value"
ExpectValue == "Could not get value"
SliceIndex == "range start index out of range for slice"

\* the array add_rest_param builds: array::new_array, then add_to_array_object
ArrayOf(values) == [type |-> "array", elems |-> values]

\* Function::add_rest_param, index counted from 0
add_rest_param(param, index, args_list, local_env) ==
    IF index > Len(args_list)
    THEN [panic |-> SliceIndex, env |-> local_env]
    ELSE [panic |-> NoPanic,
          env |-> initialize_binding(local_env, param.name,
                      ArrayOf(SubSeq(args_list, index + 1, Len(args_list))))]

\* Function::add_arguments_to_environment
add_arguments_to_environment(param, value, local_env) ==
    initialize_binding(local_env, param.name, value)

\* bind_params with the bug of a loop that goes on after the rest parameter
\* (no break)
RECURSIVE bind_params_no_break(_, _, _, _)
bind_params_no_break(params, args_list, local_env, i) ==
    IF i >= Len(params) THEN [panic |-> NoPanic, env |-> local_env]
    ELSE LET param == params[i + 1] IN
         IF param.is_rest_param
         THEN LET r == add_rest_param(param, i, args_list, local_env) IN
              IF r.panic # NoPanic THEN r
              ELSE bind_params_no_break(params, args_list, r.env, i + 1)
         ELSE IF i >= Len(args_list)
         THEN [panic |-> ExpectValue, env |-> local_env]
         ELSE bind_params_no_break(params, args_list,
                  add_arguments_to_environment(param, args_list[i + 1], local_env),
                  i + 1)

\* the loop "for i in 0..self.params.len()" of call and construct, from i on
RECURSIVE bind_params(_, _, _, _)
bind_params(params, args_list, local_env, i) ==
    IF i >= Len(params) THEN [panic |-> NoPanic, env |-> local_env]
    ELSE LET param == params[i + 1] IN
         IF param.is_rest_param
         THEN add_rest_param(param, i, args_list, local_env)
         ELSE IF i >= Len(args_list)
         THEN [panic |-> ExpectValue, env |-> local_env]
         ELSE bind_params(params, args_list,
                  add_arguments_to_environment(param, args_list[i + 1], local_env),
                  i + 1)

\* the index properties create_unmapped_arguments_object inserts
IndexProperty(val) ==
    [PropertyDefault EXCEPT !.value = Some(val), !.enumerable = Some(TRUE),
                            !.writable = Some(TRUE), !.configurable = Some(TRUE)]

\* create_unmapped_arguments_object with a loop that starts at index 1
create_unmapped_arguments_object_from_one(arguments_list) ==
    LET len == Len(arguments_list)
        length == [PropertyDefault EXCEPT !.writable = Some(TRUE),
                                          !.value = Some(Num(len))]
        keys == {usize_to_string(index) : index \in 1..(len - 1)}
        index_of(k) == CHOOSE index \in 1..(len - 1) : usize_to_string(index) = k
    IN  [type |-> "arguments",
         internal_slots |-> MapInsert(EmptyMap, "ParameterMap", Undefined),
         properties |->
             [k \in {"length"} \cup keys |->
                 IF k = "length" THEN length
                 ELSE IndexProperty(arguments_list[index_of(k) + 1])]]

\* create_unmapped_arguments_object
create_unmapped_arguments_object(arguments_list) ==
    LET len == Len(arguments_list)
        length == [PropertyDefault EXCEPT !.writable = Some(TRUE),
                                          !.value = Some(Num(len))]
        keys == {usize_to_string(index) : index \in 0..(len - 1)}
        index_of(k) == CHOOSE index \in 0..(len - 1) : usize_to_string(index) = k
    IN  [type |-> "arguments",
         internal_slots |-> MapInsert(EmptyMap, "ParameterMap", Undefined),
         properties |->
             [k \in {"length"} \cup keys |->
                 IF k = "length" THEN length
                 ELSE IndexProperty(arguments_list[index_of(k) + 1])]]

\* enter with the bug of taking the environment of the caller, when there is
\* one, as the parent of the new environment
enter_dynamic_scope(f, this, new_target, args_list) ==
    IF ~f.environment.some THEN [panic |-> UnwrapNone, env |-> GlobalEnv]
    ELSE LET outer == IF frames = <<>> THEN f.environment ELSE Some("caller")
             local_env == new_function_environment(this, new_target, outer)
             bound == bind_params(f.params, args_list, local_env, 0)
         IN  IF bound.panic # NoPanic THEN bound
             ELSE [panic |-> NoPanic,
                   env |-> initialize_binding(bound.env, "arguments",
                               create_unmapped_arguments_object(args_list))]

\* call and construct up to the push: the environment built, or the panic
enter(f, this, new_target, args_list) ==
    IF ~f.environment.some THEN [panic |-> UnwrapNone, env |-> GlobalEnv]
    ELSE LET local_env == new_function_environment(this, new_target, f.environment)
             bound == bind_params(f.params, args_list, local_env, 0)
         IN  IF bound.panic # NoPanic THEN bound
             ELSE [panic |-> NoPanic,
                   env |-> initialize_binding(bound.env, "arguments",
                               create_unmapped_arguments_object(args_list))]

\* Function::call up to the push
call_enter(f, this, args_list) == enter(f, this, Undefined, args_list)

\* construct_enter with the new-target of call: Undefined
construct_enter_undefined_new_target(f, this, new_target, args_list) ==
    enter(f, this, Undefined, args_list)

\* Function::construct up to the push
construct_enter(f, this, new_target, args_list) ==
    enter(f, this, new_target, args_list)

\* pop_environment with the bug of returning early on an error (a ? on the
\* result of the body), before the pop
pop_environment_unless_error(fr, env) ==
    IF fr.result.v.ok THEN SubSeq(env, 1, Len(env) - 1) ELSE env

\* interpreter.realm.environment.pop() of the invocation fr
pop_environment(fr, env) == SubSeq(env, 1, Len(env) - 1)

\* call_return with the bug of swallowing the error of the body
call_return_swallows_error(result) ==
    IF result.ok THEN result ELSE [ok |-> TRUE, v |-> Undefined]

\* the value call and construct return: the result of the body
call_return(result) == result

-----------------------------------------------------------------------------
(* Initial state: no Function object yet, only the global environment *)

Init ==
    /\ funcs = EmptyMap
    /\ environment = <<GlobalEnv>>
    /\ frames = <<>>
    /\ status = "running"
    /\ ret = [op |-> "none"]
    /\ harness = [op |-> "none"]

Idle == status = "running" /\ frames = <<>>

NextId == Cardinality(DOMAIN funcs) + 1

\* the values a prototype may be given: Null or an object
Protos == {Null} \cup {Obj(i) : i \in DOMAIN funcs}

Bodies == {"BuiltIn", "Ordinary"}
ThisModes == {"Lexical", "NonLexical"}

-----------------------------------------------------------------------------
(* Operations on Function objects, as the steps of a host program.  The record *)
(* in names the sets the inputs are drawn from.                            *)

CreateOrdinary(in) ==
    /\ Idle
    /\ Cardinality(DOMAIN funcs) < in.limit
    /\ \E proto \in Protos, parameter_list \in in.lists, body \in in.bodies,
          this_mode \in in.modes :
          /\ funcs' = MapInsert(funcs, NextId,
                 create_ordinary(proto, parameter_list, body, "global", this_mode))
          /\ ret' = [op |-> "create_ordinary", self |-> NextId, proto |-> proto]
    /\ UNCHANGED <<harness, environment, frames, status>>

CreateBuiltin(in) ==
    /\ Idle
    /\ Cardinality(DOMAIN funcs) < in.limit
    /\ \E proto \in Protos, parameter_list \in in.lists, body \in in.bodies,
          this_mode \in in.modes :
          /\ funcs' = MapInsert(funcs, NextId,
                 create_builtin(proto, parameter_list, body, this_mode))
          /\ ret' = [op |-> "create_builtin", self |-> NextId, proto |-> proto]
    /\ UNCHANGED <<harness, environment, frames, status>>

SetPrototypeOf ==
    /\ Idle
    /\ \E self \in DOMAIN funcs, val \in Protos :
          LET r == set_prototype_of(funcs, self, val) IN
          /\ funcs' = [funcs EXCEPT ![self] = r.func]
          /\ status' = IF r.returns THEN status ELSE "hang"
          /\ ret' = [op |-> "set_prototype_of", self |-> self, val |-> val,
                     returns |-> r.returns, result |-> r.result]
    /\ UNCHANGED <<harness, environment, frames>>

SetInternalSlot(names, values) ==
    /\ Idle
    /\ \E self \in DOMAIN funcs, name \in names, val \in values :
          /\ funcs' = [funcs EXCEPT ![self] = set_internal_slot(@, name, val)]
          /\ ret' = [op |-> "set_internal_slot", self |-> self, name |-> name,
                     val |-> val]
    /\ UNCHANGED <<harness, environment, frames, status>>

GetInternalSlot(names) ==
    /\ Idle
    /\ \E self \in DOMAIN funcs, name \in names :
          ret' = [op |-> "get_internal_slot", self |-> self, name |-> name,
                  result |-> get_internal_slot(funcs[self], name)]
    /\ UNCHANGED <<harness, funcs, environment, frames, status>>

InsertProperty(keys, descriptors) ==
    /\ Idle
    /\ \E self \in DOMAIN funcs, name \in keys, p \in descriptors :
          /\ funcs' = [funcs EXCEPT ![self] = insert_property(@, name, p)]
          /\ ret' = [op |-> "insert_property", self |-> self, name |-> name,
                     p |-> p]
    /\ UNCHANGED <<harness, environment, frames, status>>

RemoveProperty(keys) ==
    /\ Idle
    /\ \E self \in DOMAIN funcs, name \in keys :
          /\ funcs' = [funcs EXCEPT ![self] = remove_property(@, name)]
          /\ ret' = [op |-> "remove_property", self |-> self, name |-> name]
    /\ UNCHANGED <<harness, environment, frames, status>>

\* debug_assert!(v.is_accessor_descriptor()) of get_own_property: it fails on
\* a stored descriptor that is neither a data nor an accessor descriptor, and
\* only a build with debug assertions checks it
get_own_property_asserts(f, prop) ==
    LET key == to_string(prop) IN
    key \in DOMAIN f.properties =>
        \/ is_data_descriptor(f.properties[key])
        \/ is_accessor_descriptor(f.properties[key])

GetOwnProperty(keys) ==
    /\ Idle
    /\ \E self \in DOMAIN funcs, name \in keys :
       \E debug_assertions \in
             IF get_own_property_asserts(funcs[self], Str(name))
             THEN {FALSE} ELSE BOOLEAN :
          /\ status' = IF debug_assertions THEN "panic" ELSE status
          /\ ret' = [op |-> "get_own_property", self |-> self, name |-> name,
                     result |-> IF debug_assertions THEN PropertyDefault
                                ELSE get_own_property(funcs[self], Str(name))]
    /\ UNCHANGED <<harness, funcs, environment, frames>>

-----------------------------------------------------------------------------
(* Invocations.  A call or construct builds its environment and pushes it  *)
(* (or panics), the body runs (and may invoke functions itself) until the  *)
(* native routine or the executor returns, the environment is popped and   *)
(* the result is returned.                                                 *)

Top == frames[Len(frames)]

\* an invocation can start: from the host, or from inside a running body
CanInvoke ==
    /\ status = "running"
    /\ Len(frames) < MaxDepth
    /\ IF frames = <<>> THEN TRUE ELSE Top.pc = "body"

Frame(op, self, this, new_target, args_list, native_this, local_env) ==
    [op |-> op, self |-> self, this |-> this, new_target |-> new_target,
     args |-> args_list, native_this |-> native_this, pc |-> "body",
     local_env |-> local_env, entry |-> environment, result |-> None]

Call ==
    /\ CanInvoke
    /\ \E self \in DOMAIN funcs, this \in ThisValues, args_list \in ArgLists :
          LET e == call_enter(funcs[self], this, args_list) IN
          IF e.panic # NoPanic
          THEN /\ status' = "panic"
               /\ ret' = [op |-> "call", self |-> self, args |-> args_list,
                          panic |-> e.panic]
               /\ UNCHANGED <<harness, funcs, environment, frames>>
          ELSE /\ environment' = Append(environment, e.env)
               /\ frames' = Append(frames,
                      Frame("call", self, this, Undefined, args_list, this, e.env))
               /\ UNCHANGED <<harness, funcs, status, ret>>

Construct ==
    /\ CanInvoke
    /\ \E self \in DOMAIN funcs, this \in ThisValues, new_target \in NewTargets,
          args_list \in ArgLists :
          LET e == construct_enter(funcs[self], this, new_target, args_list) IN
          IF e.panic # NoPanic
          THEN /\ status' = "panic"
               /\ ret' = [op |-> "construct", self |-> self, args |-> args_list,
                          panic |-> e.panic]
               /\ UNCHANGED <<harness, funcs, environment, frames>>
          ELSE /\ environment' = Append(environment, e.env)
               /\ frames' = Append(frames,
                      Frame("construct", self, this, new_target, args_list,
                            new_target, e.env))
               /\ UNCHANGED <<harness, funcs, status, ret>>

\* FunctionBody::BuiltIn(func) => func(this, args_list, interpreter)
RunNative ==
    /\ status = "running" /\ frames # <<>>
    /\ Top.pc = "body"
    /\ funcs[Top.self].body = "BuiltIn"
    /\ \E r \in Results :
          frames' = [frames EXCEPT ![Len(frames)] =
                        [@ EXCEPT !.pc = "pop", !.result = Some(r)]]
    /\ UNCHANGED <<harness, funcs, environment, status, ret>>

\* FunctionBody::Ordinary(ref body) => interpreter.run(body)
RunExecutor ==
    /\ status = "running" /\ frames # <<>>
    /\ Top.pc = "body"
    /\ funcs[Top.self].body = "Ordinary"
    /\ \E r \in Results :
          frames' = [frames EXCEPT ![Len(frames)] =
                        [@ EXCEPT !.pc = "pop", !.result = Some(r)]]
    /\ UNCHANGED <<harness, funcs, environment, status, ret>>

\* interpreter.realm.environment.pop()
Pop ==
    /\ status = "running" /\ frames # <<>>
    /\ Top.pc = "pop"
    /\ environment' = pop_environment(Top, environment)
    /\ frames' = [frames EXCEPT ![Len(frames)] = [@ EXCEPT !.pc = "return"]]
    /\ UNCHANGED <<harness, funcs, status, ret>>

\* the last expression of call and construct: result
Return ==
    /\ status = "running" /\ frames # <<>>
    /\ Top.pc = "return"
    /\ frames' = SubSeq(frames, 1, Len(frames) - 1)
    /\ ret' = [op |-> Top.op, self |-> Top.self,
               result |-> call_return(Top.result.v)]
    /\ UNCHANGED <<harness, funcs, environment, status>>

\* the Function objects of the invocation specification
CallFuncIds == {1}

CallInputs ==
    [limit |-> Cardinality(CallFuncIds), lists |-> ParamLists, bodies |-> Bodies,
     modes |-> {"NonLexical"}]

NextCall ==
    \/ CreateOrdinary(CallInputs)
    \/ CreateBuiltin(CallInputs)
    \/ Call
    \/ Construct
    \/ RunNative
    \/ RunExecutor
    \/ Pop
    \/ Return

SpecCall == Init /\ [][NextCall]_vars

-----------------------------------------------------------------------------
(* The prototype specification: Function objects are created, their        *)
(* prototypes are set with set_prototype_of and their extensible slot is   *)
(* cleared.                                                                *)

\* set_prototype_of reads no parameter, body or closure scope: the entities
\* here are ordinary functions without parameters
ProtoInputs ==
    [limit |-> MaxFuncs, lists |-> {<<>>}, bodies |-> {"Ordinary"},
     modes |-> {"NonLexical"}]

NextProto ==
    \/ CreateOrdinary(ProtoInputs)
    \/ SetPrototypeOf
    \/ SetInternalSlot({"extensible"}, {Null})

SpecProto == Init /\ [][NextProto]_vars

-----------------------------------------------------------------------------
(* The property-table specification: Function objects are created and      *)
(* their own properties are inserted, removed and read.                    *)

PropertyKeys == {"length", "x"}

DataUndefined == [PropertyDefault EXCEPT !.value = Some(Undefined)]

Descriptors ==
    { DataUndefined,
      [PropertyDefault EXCEPT !.value = Some(Num(1)), !.writable = Some(TRUE),
                              !.enumerable = Some(TRUE),
                              !.configurable = Some(FALSE)],
      [PropertyDefault EXCEPT !.writable = Some(TRUE)],
      [PropertyDefault EXCEPT !.get = Some(Obj(1)), !.enumerable = Some(FALSE),
                              !.configurable = Some(TRUE)],
      [PropertyDefault EXCEPT !.value = Some(Num(2)), !.get = Some(Obj(1)),
                              !.set = Some(Obj(1)), !.enumerable = Some(TRUE)],
      PropertyDefault }

PropInputs ==
    [limit |-> PropFuncs, lists |-> {<<>>}, bodies |-> Bodies,
     modes |-> {"NonLexical"}]

NextProps ==
    \/ CreateOrdinary([PropInputs EXCEPT !.bodies = {"Ordinary"}])
    \/ CreateBuiltin([PropInputs EXCEPT !.bodies = {"BuiltIn"}])
    \/ InsertProperty(PropertyKeys, Descriptors)
    \/ RemoveProperty(PropertyKeys)
    \/ GetOwnProperty(PropertyKeys)

SpecProps == Init /\ [][NextProps]_vars

-----------------------------------------------------------------------------
(* The test runner of boa_tester: one run of one test.  What the engine    *)
(* does with the sources it is given is an input: world names the outcome  *)
(* of the setup (the first step of it that fails, if any), of the          *)
(* evaluation and of the parse.                                            *)

TestFlags == {"STRICT", "NO_STRICT", "RAW", "ASYNC", "MODULE"}

\* the names of the tests, and the names test_ignore.txt lists
TestNames == {"a.js", "b.js"}
IGNORED == {"b.js"}

Positive == [kind |-> "Positive"]
Negative(phase, error_type) ==
    [kind |-> "Negative", phase |-> phase, error_type |-> error_type]
Phases == {"Parse", "Resolution", "Runtime"}
ErrorTypes == {"SyntaxError", "ReferenceError"}
Outcomes == {Positive} \cup {Negative(ph, et) : ph \in Phases, et \in ErrorTypes}

\* the flag sets of the tests: with and without each of the flags run_once reads
FlagSets == {{"STRICT"}, {"NO_STRICT"}, {"STRICT", "NO_STRICT"}, {"RAW"},
             {"STRICT", "ASYNC"}, {"NO_STRICT", "MODULE"},
             {"STRICT", "NO_STRICT", "ASYNC", "MODULE"}}

Tests ==
    [name : TestNames, flags : FlagSets, expected_outcome : Outcomes,
     includes : {<<>>, <<"inc.js">>}]

Worlds ==
    [setup : {"none", "use strict", "assert.js", "sta.js", "find include",
              "run include"},
     eval : {"Ok", "Err", "panic"},
     parse : {"Ok", "Err", "panic"}]

\* what catch_unwind gives: the panic caught, or the value of the closure
Unwound(trace) == [panicked |-> TRUE, trace |-> trace]
Returned(passed, text, trace) ==
    [panicked |-> FALSE, passed |-> passed, text |-> text, trace |-> trace]

\* set_up_env: the steps it takes, in order, up to the one that panics
set_up_env(test, strict, world) ==
    LET steps == (IF strict THEN <<"use strict">> ELSE <<>>)
                 \o <<"assert.js", "sta.js">>
                 \o (IF test.includes # <<>>
                     THEN <<"find include", "run include">> ELSE <<>>)
        failing == {i \in 1..Len(steps) : steps[i] = world.setup}
    IN  IF failing = {} THEN [panicked |-> FALSE, trace |-> steps]
        ELSE [panicked |-> TRUE,
              trace |-> SubSeq(steps, 1, CHOOSE i \in failing : TRUE)]

\* the closure given to catch_unwind
run_once_closure(test, strict, world) ==
    IF test.expected_outcome = Positive
    THEN LET engine == set_up_env(test, strict, world) IN
         IF engine.panicked THEN Unwound(engine.trace)
         ELSE IF world.eval = "panic" THEN Unwound(engine.trace \o <<"eval">>)
         ELSE IF world.eval = "Ok"
         THEN Returned(TRUE, "42", engine.trace \o <<"eval">>)
         ELSE Returned(FALSE, "Uncaught " \o "TypeError", engine.trace \o <<"eval">>)
    ELSE IF test.expected_outcome.phase = "Parse"
    THEN IF test.expected_outcome.error_type # "SyntaxError"
         THEN Unwound(<<"assert_eq">>)
         ELSE IF world.parse = "panic" THEN Unwound(<<"assert_eq", "parse">>)
         ELSE IF world.parse = "Ok"
         THEN Returned(FALSE, "StatementList", <<"assert_eq", "parse">>)
         ELSE Returned(TRUE, "Uncaught " \o "SyntaxError", <<"assert_eq", "parse">>)
    ELSE Unwound(<<"todo">>)

\* the classification with a caught panic counted as a failure of the test
classify_panic_as_failed(res) ==
    IF res.panicked THEN [result |-> "Failed", result_text |-> ""]
    ELSE IF res.passed THEN [result |-> "Passed", result_text |-> res.text]
    ELSE [result |-> "Failed", result_text |-> res.text]

\* res.map(..).unwrap_or_else(..) of run_once
classify(res) ==
    IF res.panicked THEN [result |-> "Panic", result_text |-> ""]
    ELSE IF res.passed THEN [result |-> "Passed", result_text |-> res.text]
    ELSE [result |-> "Failed", result_text |-> res.text]

\* the condition under which run_once evaluates the test
run_once_evaluates(test) ==
    /\ test.flags \cap {"ASYNC", "MODULE"} = {}
    /\ test.name \notin IGNORED
    /\ IF test.expected_outcome = Positive THEN TRUE
       ELSE test.expected_outcome.phase = "Parse"

\* Test::run_once: the TestResult, and the steps taken on the engine
run_once(test, strict, world) ==
    IF run_once_evaluates(test)
    THEN LET res == run_once_closure(test, strict, world)
             result == classify(res)
         IN  [name |-> test.name, strict |-> strict, result |-> result.result,
              result_text |-> result.result_text, trace |-> res.trace]
    ELSE [name |-> test.name, strict |-> strict, result |-> "Ignored",
          result_text |-> "", trace |-> <<>>]

\* the runner is about to run the test harness.test once, strict or not
InitHarness ==
    /\ funcs = EmptyMap
    /\ environment = <<GlobalEnv>>
    /\ frames = <<>>
    /\ status = "running"
    /\ ret = [op |-> "none"]
    /\ harness \in [op : {"test"}, test : Tests, strict : BOOLEAN]

RunOnce ==
    /\ harness.op = "test"
    /\ \E world \in Worlds :
          harness' = [op |-> "run_once", test |-> harness.test,
                      strict |-> harness.strict, world |-> world,
                      result |-> run_once(harness.test, harness.strict, world)]
    /\ UNCHANGED <<funcs, environment, frames, status, ret>>

NextHarness == RunOnce

SpecHarness == InitHarness /\ [][NextHarness]_vars

-----------------------------------------------------------------------------
(* The test runner of boa_tester: the run of a suite.  A suite holds suites *)
(* and tests; what the engine does with the content of a test is fixed per  *)
(* test, once for the strict run and once for the other.                    *)

MaxSuites == 3     \* suites in a suite tree, the root included
MaxTests == 2      \* tests in a suite tree

\* a world in which the setup succeeds
World(eval, parse) == [setup |-> "none", eval |-> eval, parse |-> parse]

\* a test of a suite, with the world of its strict run and of its other run
SuiteTest(name, flags, expected_outcome, strict_world, world) ==
    [test |-> [name |-> name, flags |-> flags,
               expected_outcome |-> expected_outcome, includes |-> <<>>],
     world |-> [strict \in BOOLEAN |-> IF strict THEN strict_world ELSE world]]

\* the tests of the suites: run twice, once or not at all, with every
\* classification among their results
SuiteTests ==
    { SuiteTest("a.js", {"STRICT", "NO_STRICT"}, Positive,
                World("Ok", "Ok"), World("Ok", "Ok")),
      SuiteTest("a.js", {"STRICT", "NO_STRICT"}, Negative("Parse", "SyntaxError"),
                World("Ok", "Err"), World("Ok", "Ok")),
      SuiteTest("a.js", {"NO_STRICT"}, Positive,
                World("Err", "Ok"), World("Err", "Ok")),
      SuiteTest("a.js", {"STRICT"}, Positive,
                World("panic", "Ok"), World("panic", "Ok")),
      SuiteTest("b.js", {"RAW"}, Positive,
                World("Ok", "Ok"), World("Ok", "Ok")),
      SuiteTest("a.js", {"MODULE"}, Positive,
                World("Ok", "Ok"), World("Ok", "Ok")) }

\* the elements of a set of numbers in increasing order
RECURSIVE Ascending(_)
Ascending(S) ==
    IF S = {} THEN <<>>
    ELSE LET m == CHOOSE x \in S : \A y \in S : x <= y
         IN  <<m>> \o Ascending(S \ {m})

\* the TestSuite number i of the tree of n suites in which suite j > 1 is a
\* suite of the suite parent[j] and the test placed[k][2] is a test of the
\* suite placed[k][1]
RECURSIVE Suite(_, _, _, _)
Suite(n, parent, placed, i) ==
    LET children == Ascending({j \in 2..n : parent[j] = i})
        own == SelectSeq(placed, LAMBDA x : x[1] = i)
    IN  [name |-> i,
         suites |-> [k \in 1..Len(children) |-> Suite(n, parent, placed, children[k])],
         tests |-> [k \in 1..Len(own) |-> own[k][2]]]

\* the ways to nest n suites: suite j > 1 is a suite of an earlier suite
Nestings(n) == {p \in [2..n -> 1..n] : \A j \in 2..n : p[j] < j}

\* the ways to place at most MaxTests tests in n suites
Placements(n) == UNION {[1..k -> (1..n) \X SuiteTests] : k \in 0..MaxTests}

\* Test::run: the results of the runs of the test
Test_run(t) ==
    (IF "STRICT" \in t.test.flags
     THEN <<run_once(t.test, TRUE, t.world[TRUE])>> ELSE <<>>)
    \o (IF "NO_STRICT" \in t.test.flags \/ "RAW" \in t.test.flags
        THEN <<run_once(t.test, FALSE, t.world[FALSE])>> ELSE <<>>)

\* flatten: the concatenation of a sequence of sequences
RECURSIVE flatten(_)
flatten(seqs) == IF seqs = <<>> THEN <<>> ELSE Head(seqs) \o flatten(Tail(seqs))

\* the sum of a sequence of numbers
RECURSIVE Sum(_)
Sum(ns) == IF ns = <<>> THEN 0 ELSE Head(ns) + Sum(Tail(ns))

\* the results of tests whose result is r
Counted(tests, r) == Cardinality({k \in 1..Len(tests) : tests[k].result = r})

\* TestSuite::run with the bug of a total that leaves out the suites of the
\* suite
RECURSIVE TestSuite_run_own_total(_)
TestSuite_run_own_total(suite) ==
    LET suites == [k \in 1..Len(suite.suites) |->
                      TestSuite_run_own_total(suite.suites[k])]
        tests == flatten([k \in 1..Len(suite.tests) |-> Test_run(suite.tests[k])])
        of(field) == Sum([k \in 1..Len(suites) |-> suites[k][field]])
    IN  [name |-> suite.name,
         total |-> Len(tests),
         passed |-> Counted(tests, "Passed") + of("passed"),
         ignored |-> Counted(tests, "Ignored") + of("ignored"),
         panic |-> Counted(tests, "Panic") + of("panic"),
         suites |-> suites,
         tests |-> tests]

\* TestSuite::run: the SuiteResult
RECURSIVE TestSuite_run(_)
TestSuite_run(suite) ==
    LET suites == [k \in 1..Len(suite.suites) |-> TestSuite_run(suite.suites[k])]
        tests == flatten([k \in 1..Len(suite.tests) |-> Test_run(suite.tests[k])])
        of(field) == Sum([k \in 1..Len(suites) |-> suites[k][field]])
    IN  [name |-> suite.name,
         total |-> Len(tests) + of("total"),
         passed |-> Counted(tests, "Passed") + of("passed"),
         ignored |-> Counted(tests, "Ignored") + of("ignored"),
         panic |-> Counted(tests, "Panic") + of("panic"),
         suites |-> suites,
         tests |-> tests]

\* the runner is about to run the suite harness.suite, a suite tree of at
\* most MaxSuites suites and MaxTests tests
InitSuite ==
    /\ funcs = EmptyMap
    /\ environment = <<GlobalEnv>>
    /\ frames = <<>>
    /\ status = "running"
    /\ ret = [op |-> "none"]
    /\ \E n \in 1..MaxSuites :
          \E parent \in Nestings(n), placed \in Placements(n) :
             harness = [op |-> "suite", suite |-> Suite(n, parent, placed, 1)]

RunSuite ==
    /\ harness.op = "suite"
    /\ harness' = [op |-> "suite_run", suite |-> harness.suite,
                   result |-> TestSuite_run(harness.suite)]
    /\ UNCHANGED <<funcs, environment, frames, status, ret>>

NextSuite == RunSuite

SpecSuite == InitSuite /\ [][NextSuite]_vars

-----------------------------------------------------------------------------
(* The internal-slot specification: Function objects are created and their *)
(* internal slots are set and read.                                        *)

\* the slots written, one that creation installs and one that it does not,
\* and the slots read
SlotNames == {"extensible", "custom"}
ReadSlotNames == SlotNames \cup {PROTOTYPE, "home_object"}

SlotValues == {Null, Undefined, Num(7)}

NextSlots ==
    \/ CreateOrdinary([PropInputs EXCEPT !.bodies = {"Ordinary"}])
    \/ CreateBuiltin([PropInputs EXCEPT !.bodies = {"BuiltIn"}])
    \/ SetInternalSlot(SlotNames, SlotValues)
    \/ GetInternalSlot(ReadSlotNames)

SpecSlots == Init /\ [][NextSlots]_vars

-----------------------------------------------------------------------------
(* Prototype chains, read off the state independently of set_prototype_of *)

\* the entity the prototype slot of entity i refers to, as a set
ProtoSucc(fs, i) ==
    LET p == get_internal_slot(fs[i], PROTOTYPE) IN
    IF is_object(p) /\ p.id \in DOMAIN fs THEN {p.id} ELSE {}

\* the entities reachable from the set S in zero or more prototype steps
RECURSIVE ProtoClosure(_, _)
ProtoClosure(fs, S) ==
    LET T == S \cup UNION {ProtoSucc(fs, i) : i \in S} IN
    IF T = S THEN S ELSE ProtoClosure(fs, T)

\* self is reachable from the value v by following prototype slots
ReachableFrom(fs, v, self) ==
    is_object(v) /\ v.id \in DOMAIN fs /\ self \in ProtoClosure(fs, {v.id})

\* the step is a call of set_prototype_of
IsSetPrototypeOf == ret'.op = "set_prototype_of" /\ vars' # vars

\* C6: set_prototype_of(new_proto) returns false and changes nothing whenever
\* self is reachable from new_proto through prototype slots; in particular
\* B.set_prototype_of(A) when A's prototype is B.
C6_CycleRejected ==
    [][(IsSetPrototypeOf /\ ReachableFrom(funcs, ret'.val, ret'.self))
         => (ret'.returns /\ ret'.result = FALSE /\ funcs' = funcs)]_vars

\* B.set_prototype_of(A) has just returned false, A's prototype being B and
\* both being extensible
C6_Witness ==
    /\ ret.op = "set_prototype_of"
    /\ ret.result = FALSE
    /\ is_object(ret.val)
    /\ ret.val.id # ret.self
    /\ get_internal_slot(funcs[ret.val.id], PROTOTYPE) = Obj(ret.self)
    /\ get_internal_slot(funcs[ret.self], "extensible") = Bool(TRUE)
    /\ get_internal_slot(funcs[ret.val.id], "extensible") = Bool(TRUE)

\* C7: no entity is reachable from itself through one or more prototype slots.
C7_NoPrototypeCycle ==
    \A i \in DOMAIN funcs : i \notin ProtoClosure(funcs, ProtoSucc(funcs, i))

\* a chain of three entities has been built by set_prototype_of
C7_Witness ==
    /\ ret.op = "set_prototype_of"
    /\ ret.result = TRUE
    /\ is_object(ret.val)
    /\ get_internal_slot(funcs[ret.self], PROTOTYPE) = ret.val
    /\ Cardinality(ProtoClosure(funcs, {ret.self})) >= 3

\* C8: set_prototype_of with the current prototype returns true and changes
\* nothing, whether or not the entity is extensible.
C8_SamePrototypeNoOp ==
    [][(IsSetPrototypeOf
          /\ ret'.val = get_internal_slot(funcs[ret'.self], PROTOTYPE))
         => (ret'.returns /\ ret'.result = TRUE /\ funcs' = funcs)]_vars

\* set_prototype_of has returned true on an entity whose extensible slot is
\* null: the value was the current prototype
C8_Witness ==
    /\ ret.op = "set_prototype_of"
    /\ ret.result = TRUE
    /\ is_object(ret.val)
    /\ is_null(get_internal_slot(funcs[ret.self], "extensible"))

-----------------------------------------------------------------------------
(* The own-property table *)

\* the result get_own_property gives for a key the table does not hold
Absent == PropertyDefault

\* C9: get_own_property on a key that is not in the table (never inserted, or
\* removed) returns Absent on every read, and a stored data descriptor whose
\* value is Undefined reads as something else than Absent.
C9_AbsentIsDistinct ==
    (ret.op = "get_own_property" /\ status = "running") =>
        LET props == funcs[ret.self].properties IN
        /\ ret.name \notin DOMAIN props => ret.result = Absent
        /\ (ret.name \in DOMAIN props /\ props[ret.name].value = Some(Undefined))
              => ret.result # Absent

\* "length" has been removed and reads Absent, while "x" holds a data
\* descriptor whose value is Undefined
C9_Witness ==
    /\ ret.op = "get_own_property"
    /\ ret.name = "length"
    /\ DOMAIN funcs[ret.self].properties = {"x"}
    /\ funcs[ret.self].properties["x"] = DataUndefined
    /\ ret.result = Absent

-----------------------------------------------------------------------------
(* The invocation protocol *)

HasRest(ps) == \E i \in 1..Len(ps) : ps[i].is_rest_param

\* a call or construct has panicked while binding its parameters
BindingPanicked ==
    /\ status = "panic"
    /\ ret.op \in {"call", "construct"}
    /\ ret.panic \in {ExpectValue, SliceIndex}

\* the arguments object obj exposes all of the argument list A
ArgumentsExpose(obj, A) ==
    /\ obj.type = "arguments"
    /\ obj.properties["length"].value = Some(Num(Len(A)))
    /\ \A i \in 1..Len(A) :
          /\ usize_to_string(i - 1) \in DOMAIN obj.properties
          /\ obj.properties[usize_to_string(i - 1)].value = Some(A[i])

\* C1: with a parameter list P without rest parameter and any argument list A,
\* call and construct finish the binding step without error and bind P[i] to
\* A[i] when A has it and to Undefined when it has not.
C1_BindsEveryParameter ==
    /\ BindingPanicked => HasRest(funcs[ret.self].params)
    /\ \A k \in 1..Len(frames) :
          LET P == funcs[frames[k].self].params
              A == frames[k].args
              b == frames[k].local_env.bindings
          IN  ~HasRest(P) =>
                 \A i \in 1..Len(P) :
                    /\ P[i].name \in DOMAIN b
                    /\ b[P[i].name] = IF i <= Len(A) THEN A[i] ELSE Undefined

\* C2: with a parameter list P whose last element, at position k, is its rest
\* parameter and any argument list A (shorter than k too), the rest parameter
\* is bound to a new sequence holding A[k..] and "arguments" exposes all of A.
C2_RestCollectsTail ==
    LET EndsInRest(P) == P # <<>> /\ WellFormed(P) /\ P[Len(P)].is_rest_param IN
    /\ BindingPanicked => ~EndsInRest(funcs[ret.self].params)
    /\ \A j \in 1..Len(frames) :
          LET P == funcs[frames[j].self].params
              A == frames[j].args
              b == frames[j].local_env.bindings
          IN  EndsInRest(P) =>
                 /\ b[P[Len(P)].name] = ArrayOf(SubSeq(A, Len(P), Len(A)))
                 /\ ArgumentsExpose(b["arguments"], A)

\* the step enters an invocation, pops its environment, returns from it
IsEnter == Len(frames') = Len(frames) + 1
IsPop == frames # <<>> /\ Len(frames') = Len(frames) /\ Top.pc = "pop"
IsReturn == frames # <<>> /\ Len(frames') = Len(frames) - 1

\* C3: an invocation pushes exactly one environment, pops that one, and when
\* it returns the stack of environments is what it was when the invocation
\* was entered, whether the body returned a value or an error, nested or not.
C3_StackRestored ==
    [][/\ IsEnter => environment' = Append(environment, frames'[Len(frames')].local_env)
       /\ IsPop => environment = Append(environment', Top.local_env)
       /\ IsReturn => environment' = Top.entry]_vars

\* a nested invocation has returned an error to a body that is still running,
\* and the stack holds the global environment and that body's environment
C3_Witness ==
    /\ Len(frames) = 1
    /\ Top.pc = "body"
    /\ ret.op \in {"call", "construct"}
    /\ status = "running"
    /\ ~ret.result.ok
    /\ environment = <<GlobalEnv, Top.local_env>>

\* C4: call and construct on a function made by create_builtin with a native
\* body, which has no closure scope, run the native routine; only an
\* interpreted body without closure scope is an invariant violation.
C4_NativeNeedsNoScope ==
    (status = "panic" /\ ret.op \in {"call", "construct"}
        /\ ret.panic = UnwrapNone)
    => funcs[ret.self].body # "BuiltIn"

\* C5: right after create_ordinary or create_builtin with a well-formed
\* parameter list, "length" is {writable: false, enumerable: false,
\* configurable: true} and its value is the number of non-rest parameters.
C5_LengthCountsNonRest ==
    (ret.op \in {"create_ordinary", "create_builtin"}
        /\ WellFormed(funcs[ret.self].params))
    => /\ "length" \in DOMAIN funcs[ret.self].properties
       /\ funcs[ret.self].properties["length"] =
             [PropertyDefault EXCEPT
                 !.writable = Some(FALSE), !.enumerable = Some(FALSE),
                 !.configurable = Some(TRUE),
                 !.value = Some(Num(NonRestCount(funcs[ret.self].params)))]

\* C10: an error the native routine or the executor returns is what call and
\* construct return, and they return it with the environment already popped.
C10_ErrorPropagates ==
    [][(IsReturn /\ ~Top.result.v.ok)
         => /\ ret'.result = Top.result.v
            /\ environment = Top.entry
            /\ environment' = environment]_vars

\* construct of a native body has returned the error of the native routine
C10_Witness ==
    /\ ret.op = "construct"
    /\ status = "running"
    /\ ret.result = Err(Str("RangeError"))
    /\ funcs[ret.self].body = "BuiltIn"
    /\ frames = <<>>
    /\ environment = <<GlobalEnv>>

Decimal == <<"0", "1", "2", "3", "4", "5", "6", "7", "8", "9">>

\* C12: for every argument list A the arguments object has "length" with value
\* |A| and writable true, for each i < |A| one property keyed by the decimal
\* string of i that is {value: A[i], enumerable, writable, configurable: true},
\* and no other property: none for i >= |A|, and none at all but "length"
\* when A is empty.
C12_ArgumentsObject ==
    \A k \in 1..Len(frames) :
       LET A == frames[k].args
           obj == frames[k].local_env.bindings["arguments"]
       IN  /\ obj.type = "arguments"
           /\ "length" \in DOMAIN obj.properties
           /\ obj.properties["length"].value = Some(Num(Len(A)))
           /\ obj.properties["length"].writable = Some(TRUE)
           /\ DOMAIN obj.properties = {"length"} \cup {Decimal[i] : i \in 1..Len(A)}
           /\ \A i \in 1..Len(A) :
                 obj.properties[Decimal[i]] =
                    [configurable |-> Some(TRUE), enumerable |-> Some(TRUE),
                     writable |-> Some(TRUE), value |-> Some(A[i]),
                     get |-> None, set |-> None]
           /\ A = <<>> => /\ obj.properties["length"].value = Some(Num(0))
                          /\ DOMAIN obj.properties = {"length"}

\* an invocation with two arguments runs inside an invocation without
\* arguments, each with its arguments object
C12_Witness ==
    /\ Len(frames) = 2
    /\ frames[1].args = <<>>
    /\ Len(Top.args) = 2
    /\ Top.args[1] # Top.args[2]
    /\ "1" \in DOMAIN Top.local_env.bindings["arguments"].properties
    /\ DOMAIN frames[1].local_env.bindings["arguments"].properties = {"length"}

\* C13: in every state reachable from creation by the exposed operations, the
\* "length" own property of every entity is present and is {writable: false,
\* enumerable: false, configurable: true, value: its non-rest parameter count}.
C13_LengthAlways ==
    \A i \in DOMAIN funcs :
       /\ "length" \in DOMAIN funcs[i].properties
       /\ funcs[i].properties["length"] =
             [PropertyDefault EXCEPT
                 !.writable = Some(FALSE), !.enumerable = Some(FALSE),
                 !.configurable = Some(TRUE),
                 !.value = Some(Num(NonRestCount(funcs[i].params)))]

-----------------------------------------------------------------------------
(* The test runner *)

\* the run of the test took the step named step on the engine
Ran(step) == \E i \in 1..Len(harness.result.trace) : harness.result.trace[i] = step

\* the test is one the runner does not evaluate
Skipped(t) ==
    \/ "ASYNC" \in t.flags
    \/ "MODULE" \in t.flags
    \/ t.name \in IGNORED
    \/ IF t.expected_outcome.kind = "Negative"
       THEN t.expected_outcome.phase # "Parse" ELSE FALSE

\* a step the run took has panicked
RunPanicked ==
    \/ harness.world.setup # "none" /\ Ran(harness.world.setup)
    \/ Ran("eval") /\ harness.world.eval = "panic"
    \/ Ran("parse") /\ harness.world.parse = "panic"
    \/ Ran("assert_eq") /\ harness.test.expected_outcome.error_type # "SyntaxError"
    \/ Ran("todo")

\* C14: a run of a test yields exactly one of Passed, Failed, Ignored and
\* Panic.  An evaluation that returns a language-level error makes a positive
\* test Failed with an Uncaught text, and a parse error makes a negative parse
\* test Passed; a panic during setup or evaluation gives Panic and never
\* Passed or Failed; a test with the async or module flag, on the ignore list
\* or negative in another phase than parse is Ignored and nothing of it is
\* evaluated.
C14_RunClassified ==
    harness.op = "run_once" =>
       LET r == harness.result IN
       /\ r.result \in {"Passed", "Failed", "Ignored", "Panic"}
       /\ Skipped(harness.test) => (r.result = "Ignored" /\ r.trace = <<>>)
       /\ ~Skipped(harness.test) => (r.result # "Ignored" /\ r.trace # <<>>)
       /\ RunPanicked <=> r.result = "Panic"
       /\ (Ran("eval") /\ harness.world.eval = "Err")
             => (r.result = "Failed" /\ r.result_text = "Uncaught TypeError")
       /\ (Ran("eval") /\ harness.world.eval = "Ok") => r.result = "Passed"
       /\ (Ran("parse") /\ harness.world.parse = "Err")
             => (r.result = "Passed" /\ r.result_text = "Uncaught SyntaxError")
       /\ (Ran("parse") /\ harness.world.parse = "Ok") => r.result = "Failed"

\* a strict run of a positive test with an include has panicked in the
\* evaluation of the test, after a complete setup
C14_Witness ==
    /\ harness.op = "run_once"
    /\ harness.strict
    /\ harness.test.expected_outcome = Positive
    /\ harness.world.eval = "panic"
    /\ harness.result.result = "Panic"
    /\ harness.result.trace = <<"use strict", "assert.js", "sta.js",
                                "find include", "run include", "eval">>

-----------------------------------------------------------------------------
(* [[SetPrototypeOf]]: failure and termination *)

\* C15: set_prototype_of(new_proto) on an entity whose extensible slot is
\* unset, with new_proto different from the current prototype, returns false
\* and changes no internal slot and no own property; and whenever
\* set_prototype_of returns false every entity is as it was before the call.
C15_FalseChangesNothing ==
    [][IsSetPrototypeOf =>
         /\ (/\ is_null(get_internal_slot(funcs[ret'.self], "extensible"))
              /\ ret'.val # get_internal_slot(funcs[ret'.self], PROTOTYPE))
               => (ret'.returns /\ ret'.result = FALSE
                   /\ funcs'[ret'.self].internal_slots = funcs[ret'.self].internal_slots
                   /\ funcs'[ret'.self].properties = funcs[ret'.self].properties)
         /\ (ret'.returns /\ ret'.result = FALSE) => funcs' = funcs]_vars

\* set_prototype_of has returned false on an entity whose extensible slot is
\* null, for an object that is not its prototype and from which the entity
\* is not reachable
C15_Witness ==
    /\ ret.op = "set_prototype_of"
    /\ ret.result = FALSE
    /\ is_object(ret.val)
    /\ is_null(get_internal_slot(funcs[ret.self], "extensible"))
    /\ ret.val # get_internal_slot(funcs[ret.self], PROTOTYPE)
    /\ ~ReachableFrom(funcs, ret.val, ret.self)

\* the entities of the prototype chain that starts at the value v
Chain(fs, v) == IF is_object(v) THEN ProtoClosure(fs, {v.id}) ELSE {}

\* C16: in every state reached by set_prototype_of calls from freshly created
\* entities, set_prototype_of(new_proto) with new_proto an object or Null
\* terminates: the walk from new_proto reaches Null or self within as many
\* steps as there are entities in the chain of new_proto.
C16_WalkTerminates ==
    /\ status # "hang"
    /\ ret.op = "set_prototype_of" => ret.returns
    /\ \A self \in DOMAIN funcs, val \in Protos :
          /\ set_prototype_of(funcs, self, val).returns
          /\ chain_walk(funcs, self, val, Cardinality(Chain(funcs, val)))
                \in {"null", "self"}

\* set_prototype_of has returned false after a walk over three entities: the
\* value, its prototype, and the prototype of that one, which is self
C16_Witness ==
    /\ ret.op = "set_prototype_of"
    /\ ret.returns
    /\ ret.result = FALSE
    /\ is_object(ret.val)
    /\ ret.val.id # ret.self
    /\ get_internal_slot(funcs[ret.val.id], PROTOTYPE) # Obj(ret.self)
    /\ Cardinality(Chain(funcs, ret.val)) = 3
    /\ ret.self \in Chain(funcs, ret.val)
    /\ ~is_null(get_internal_slot(funcs[ret.self], "extensible"))

-----------------------------------------------------------------------------
(* insert_property and remove_property *)

\* the step is a call of the operation named op
IsOp(op) == ret'.op = op /\ vars' # vars

\* the step leaves all of entity i but its entry for the key k, and all other
\* entities, as they were
OnlyEntryChanged(i, k) ==
    /\ DOMAIN funcs' = DOMAIN funcs
    /\ \A j \in DOMAIN funcs \ {i} : funcs'[j] = funcs[j]
    /\ funcs'[i].internal_slots = funcs[i].internal_slots
    /\ DOMAIN funcs'[i].properties \ {k} = DOMAIN funcs[i].properties \ {k}
    /\ \A x \in DOMAIN funcs[i].properties \ {k} :
          funcs'[i].properties[x] = funcs[i].properties[x]

\* C17: after insert_property(k, d) the table has one entry for k and it is d,
\* whatever k had before; after remove_property(k) get_own_property(k) is
\* Absent, and removing a key that is not there changes nothing; both leave
\* the entries of the other keys and the internal slots as they were.
C17_InsertRemove ==
    [][/\ IsOp("insert_property") =>
            /\ ret'.name \in DOMAIN funcs'[ret'.self].properties
            /\ funcs'[ret'.self].properties[ret'.name] = ret'.p
            /\ OnlyEntryChanged(ret'.self, ret'.name)
       /\ IsOp("remove_property") =>
            /\ ret'.name \notin DOMAIN funcs'[ret'.self].properties
            /\ get_own_property(funcs'[ret'.self], Str(ret'.name)) = Absent
            /\ ret'.name \notin DOMAIN funcs[ret'.self].properties
                  => funcs' = funcs
            /\ OnlyEntryChanged(ret'.self, ret'.name)]_vars

\* insert_property has stored a descriptor with fields of both kinds under
\* "length", which held the descriptor of creation or a later one, and "x"
\* holds what an earlier insert_property gave it
C17_Witness ==
    /\ ret.op = "insert_property"
    /\ ret.name = "length"
    /\ ret.p.value.some /\ ret.p.get.some
    /\ funcs[ret.self].properties["length"] = ret.p
    /\ "x" \in DOMAIN funcs[ret.self].properties
    /\ funcs[ret.self].properties["x"] = DataUndefined

-----------------------------------------------------------------------------
(* The projection of get_own_property *)

\* d is the projection of the stored entry v: its flags, and its value and
\* writable alone when v is a data descriptor, its get and set alone when not
Projects(v, d) ==
    /\ d.enumerable = v.enumerable
    /\ d.configurable = v.configurable
    /\ IF v.value.some \/ v.writable.some
       THEN /\ d.value = v.value /\ d.writable = v.writable
            /\ d.get = None /\ d.set = None
       ELSE /\ d.get = v.get /\ d.set = v.set
            /\ d.value = None /\ d.writable = None

\* the entry get_own_property is called on in this step
StoredEntry == funcs[ret'.self].properties[ret'.name]

-----------------------------------------------------------------------------
(* The order of the parameter binding *)

\* the positions of the rest parameters of the list P
RestPositions(P) == {i \in 1..Len(P) : P[i].is_rest_param}

\* the position of the first of them
FirstRest(P) == CHOOSE i \in RestPositions(P) : \A j \in RestPositions(P) : i <= j

\* C19: the binding walks the parameters from left to right and stops at the
\* first rest parameter: in every activation that parameter is bound to the
\* sequence of the arguments from its own index on, the parameters before it
\* to their arguments, and no parameter after it has a binding, a second rest
\* parameter of a malformed list included.
C19_StopsAtFirstRest ==
    \A k \in 1..Len(frames) :
       LET P == funcs[frames[k].self].params
           A == frames[k].args
           b == frames[k].local_env.bindings
       IN  RestPositions(P) # {} =>
              LET r == FirstRest(P) IN
              /\ \A i \in 1..(r - 1) : P[i].name \in DOMAIN b /\ b[P[i].name] = A[i]
              /\ P[r].name \in DOMAIN b
              /\ b[P[r].name] = [type |-> "array", elems |-> SubSeq(A, r, Len(A))]
              /\ \A j \in (r + 1)..Len(P) : P[j].name \notin DOMAIN b
              /\ DOMAIN b = {P[i].name : i \in 1..r} \cup {"arguments"}

\* an activation of a function whose two parameters are both rest
\* parameters, on two arguments: the first holds both, the second is unbound
C19_Witness ==
    /\ frames # <<>>
    /\ Len(funcs[Top.self].params) = 2
    /\ RestPositions(funcs[Top.self].params) = {1, 2}
    /\ Len(Top.args) = 2
    /\ Top.local_env.bindings["a"] = ArrayOf(Top.args)
    /\ "b" \notin DOMAIN Top.local_env.bindings

-----------------------------------------------------------------------------
(* Internal slots *)

\* what the slot table t holds for the name n, None when it holds nothing
Held(t, n) == IF n \in DOMAIN t THEN Some(t[n]) ELSE None

\* C20: get_internal_slot(n) returns Null when n was never set and the value
\* of the last set_internal_slot(n, v) otherwise, Undefined for a slot that
\* holds Undefined; set_internal_slot changes slot n alone; right after
\* creation extensible reads true, prototype the prototype supplied and
\* home_object Undefined.
C20_InternalSlots ==
    [][/\ IsOp("set_internal_slot") =>
            /\ get_internal_slot(funcs'[ret'.self], ret'.name) = ret'.val
            /\ Held(funcs'[ret'.self].internal_slots, ret'.name) = Some(ret'.val)
            /\ \A n \in ReadSlotNames \ {ret'.name} :
                  Held(funcs'[ret'.self].internal_slots, n)
                     = Held(funcs[ret'.self].internal_slots, n)
            /\ DOMAIN funcs'[ret'.self].internal_slots
                  = DOMAIN funcs[ret'.self].internal_slots \cup {ret'.name}
            /\ funcs'[ret'.self].properties = funcs[ret'.self].properties
            /\ \A j \in DOMAIN funcs \ {ret'.self} : funcs'[j] = funcs[j]
       /\ ~IsOp("set_internal_slot") =>
            \A j \in DOMAIN funcs : funcs'[j].internal_slots = funcs[j].internal_slots
       /\ IsOp("get_internal_slot") =>
            /\ funcs' = funcs
            /\ ret'.result =
                  IF Held(funcs[ret'.self].internal_slots, ret'.name) = None
                  THEN Null
                  ELSE Held(funcs[ret'.self].internal_slots, ret'.name).v
       /\ (IsOp("create_ordinary") \/ IsOp("create_builtin")) =>
            /\ ret'.self \notin DOMAIN funcs
            /\ get_internal_slot(funcs'[ret'.self], "extensible") = Bool(TRUE)
            /\ get_internal_slot(funcs'[ret'.self], PROTOTYPE) = ret'.proto
            /\ get_internal_slot(funcs'[ret'.self], "home_object") = Undefined
            /\ get_internal_slot(funcs'[ret'.self], "custom") = Null
            /\ DOMAIN funcs'[ret'.self].internal_slots
                  = {"extensible", PROTOTYPE, "home_object"}]_vars

\* the slot custom, set to Undefined, has been read as Undefined, on an
\* entity whose slot extensible was set to Null
C20_Witness ==
    /\ ret.op = "get_internal_slot"
    /\ ret.name = "custom"
    /\ ret.result = Undefined
    /\ funcs[ret.self].internal_slots["custom"] = Undefined
    /\ funcs[ret.self].internal_slots["extensible"] = Null
    /\ funcs[ret.self].internal_slots["home_object"] = Undefined

-----------------------------------------------------------------------------
(* The activation of an invocation *)

\* the parameters of the list P that the binding reaches: all of them, or
\* those up to its first rest parameter
Reached(P) == IF RestPositions(P) = {} THEN 1..Len(P) ELSE 1..FirstRest(P)

\* env is an activation of the entity f on the arguments A and nothing else:
\* its parent is the closure scope of f and its bindings are those of the
\* parameters of f to A, and "arguments"
OwnActivation(env, f, A) ==
    /\ env.outer = f.environment
    /\ DOMAIN env.bindings = {f.params[i].name : i \in Reached(f.params)}
                                 \cup {"arguments"}
    /\ \A i \in Reached(f.params) :
          env.bindings[f.params[i].name] =
             IF f.params[i].is_rest_param
             THEN [type |-> "array", elems |-> SubSeq(A, i, Len(A))]
             ELSE A[i]
    /\ ArgumentsExpose(env.bindings["arguments"], A)

\* the environments of the invocations in progress that are not popped yet
PushedEnvs ==
    [k \in 1..(Len(environment) - 1) |-> frames[k].local_env]

\* every invocation in progress has an activation of its own, and the stack
\* holds the closure scope, without a binding, below these activations
ActivationsApart ==
    /\ environment[1] = GlobalEnv
    /\ Len(environment) - 1 \in {Len(frames), Len(frames) - 1}
    /\ environment = <<GlobalEnv>> \o PushedEnvs
    /\ \A k \in 1..Len(frames) :
          OwnActivation(frames[k].local_env, funcs[frames[k].self], frames[k].args)

\* the step is one of an invocation: it starts, runs, pops, returns or panics
IsInvocationStep ==
    \/ frames # frames'
    \/ IsOp("call")
    \/ IsOp("construct")

\* C21: call and construct make the bindings of the parameters and of
\* "arguments" in a new activation whose parent is the closure scope of the
\* entity; the closure scope gets and loses no binding, the entity (slots,
\* properties, params, body) is left as it was, and an invocation, after
\* another or inside another of the same entity, has the bindings of its own
\* arguments and leaves those of the others as they were.
C21_FreshActivation ==
    [][/\ ActivationsApart'
       /\ IsInvocationStep =>
            /\ funcs' = funcs
            /\ environment'[1] = environment[1]
            /\ \A k \in 1..Len(frames) :
                  k <= Len(frames') => frames'[k].local_env = frames[k].local_env]_vars

\* an invocation without arguments, made by the body of an invocation of the
\* same entity on two arguments, has popped its environment: the rest
\* parameter is the empty array in the one and both arguments in the other
C21_Witness ==
    /\ Len(frames) = 2
    /\ frames[1].self = Top.self
    /\ funcs[Top.self].params # <<>>
    /\ funcs[Top.self].params[1].is_rest_param
    /\ Len(frames[1].args) = 2
    /\ Top.args = <<>>
    /\ Top.pc = "return"
    /\ Top.local_env.bindings["a"] = ArrayOf(<<>>)
    /\ frames[1].local_env.bindings["a"] = ArrayOf(frames[1].args)
    /\ environment = <<GlobalEnv, frames[1].local_env>>

-----------------------------------------------------------------------------
(* The counts of a suite *)

\* the results of the runs of tests in the SuiteResult sr and in the
\* SuiteResults below it
RECURSIVE AllResults(_)
AllResults(sr) ==
    sr.tests \o flatten([k \in 1..Len(sr.suites) |-> AllResults(sr.suites[k])])

\* the SuiteResult sr and the SuiteResults below it
RECURSIVE AllSuiteResults(_)
AllSuiteResults(sr) ==
    {sr} \cup UNION {AllSuiteResults(sr.suites[k]) : k \in 1..Len(sr.suites)}

\* the number of runs the tests of the suite and of the suites below it get:
\* one for a strict test, one for a non-strict or raw test, both for both
RECURSIVE RunsOf(_)
RunsOf(suite) ==
    Sum([k \in 1..Len(suite.tests) |->
            (IF "STRICT" \in suite.tests[k].test.flags THEN 1 ELSE 0)
            + (IF {"NO_STRICT", "RAW"} \cap suite.tests[k].test.flags # {}
               THEN 1 ELSE 0)])
    + Sum([k \in 1..Len(suite.suites) |-> RunsOf(suite.suites[k])])

\* the results among rs that are classified r
Classified(rs, r) == Cardinality({k \in 1..Len(rs) : rs[k].result = r})

\* C22: in the SuiteResult of every suite tree, and in every SuiteResult
\* below it, total is the number of results of test runs in the suite and its
\* nested suites, and passed, ignored and panic are the numbers of those
\* results that are Passed, Ignored and Panic; so their sum is at most total
\* and total exceeds it by the number of Failed results.
C22_SuiteCounts ==
    harness.op = "suite_run" =>
       /\ harness.result.total = RunsOf(harness.suite)
       /\ \A sr \in AllSuiteResults(harness.result) :
             LET rs == AllResults(sr) IN
             /\ sr.total = Len(rs)
             /\ sr.passed = Classified(rs, "Passed")
             /\ sr.ignored = Classified(rs, "Ignored")
             /\ sr.panic = Classified(rs, "Panic")
             /\ sr.passed + sr.ignored + sr.panic <= sr.total
             /\ sr.total - (sr.passed + sr.ignored + sr.panic)
                   = Classified(rs, "Failed")

\* the run of a suite without tests, holding a suite that holds a suite, has
\* given a total of three with one Passed, one Panic and one Failed result,
\* all from the suites below
C22_Witness ==
    /\ harness.op = "suite_run"
    /\ harness.result.tests = <<>>
    /\ Len(harness.result.suites) = 1
    /\ Len(harness.result.suites[1].suites) = 1
    /\ harness.result.suites[1].suites[1].tests # <<>>
    /\ harness.result.total = 3
    /\ harness.result.passed = 1
    /\ harness.result.panic = 1
    /\ harness.result.ignored = 0

====
